---- MODULE Spec2Model ----
(***************************************************************************)
(* Model of app.py: the Purchase / Sales report processor.                 *)
(*                                                                         *)
(* Text is modelled as a sequence of tokens (a column name is a sequence   *)
(* of words and whitespace tokens, a file name and a cell text a sequence  *)
(* of characters), so that strip, endswith, str and "+ '%'" are computed   *)
(* and not assumed.  A DataFrame is a record [columns, rows]: columns is   *)
(* the sequence of column names, rows the sequence of rows, a row being    *)
(* the sequence of its cells in column order.  A cell is a record [t, v]:  *)
(* a missing value (NaN), an integer or a text.                            *)
(*                                                                         *)
(* The headers drawn are headers of text names whose stripped names are    *)
(* pairwise distinct (a label then selects one column of the frame).       *)
(***************************************************************************)
EXTENDS Integers, Sequences, FiniteSets, TLC

VARIABLES
    purchase_file,  \* the upload held by the "purchase" file_uploader, or None
    sales_file,     \* the upload held by the "sales" file_uploader, or None
    page,           \* what the last script run put on the page, in order
    download,       \* the download button's payload on the page, or None
    raw,            \* process_file on its own: the table as it was loaded
    df,             \* process_file on its own: the table object handed to process_file
    file_type,      \* process_file on its own: 'Purchase' or 'Sales'
    runs            \* process_file on its own: what each call so far gave

vars == <<purchase_file, sales_file, page, download, raw, df, file_type, runs>>

None == [none |-> TRUE]

-----------------------------------------------------------------------------
(* Bounds of the model.                                                    *)

\* most data rows of a table handed to process_file on its own
MaxRows == 2
\* most data rows of a table inside an uploaded file
MaxFileRows == 1
\* calls of process_file in succession on one table object
MaxRuns == 2

-----------------------------------------------------------------------------
(* Text.                                                                   *)

Whitespace == {" ", "\t"}

RECURSIVE lstrip(_)
lstrip(s) ==
    IF s # <<>> /\ Head(s) \in Whitespace THEN lstrip(Tail(s)) ELSE s

RECURSIVE rstrip(_)
rstrip(s) ==
    IF s # <<>> /\ s[Len(s)] \in Whitespace
    THEN rstrip(SubSeq(s, 1, Len(s) - 1))
    ELSE s

\* str.strip(): leading and trailing whitespace removed, inner whitespace kept
\* variants: lstrip alone; one whitespace character taken off each end
strip_left_only(s) == lstrip(s)
strip_once(s) ==
    LET a == IF s # <<>> /\ Head(s) \in Whitespace THEN Tail(s) ELSE s
    IN  IF a # <<>> /\ a[Len(a)] \in Whitespace THEN SubSeq(a, 1, Len(a) - 1) ELSE a
strip(s) == rstrip(lstrip(s))

\* str.endswith(suffix)
endswith(s, suffix) ==
    /\ Len(suffix) <= Len(s)
    /\ SubSeq(s, Len(s) - Len(suffix) + 1, Len(s)) = suffix

Digit(d) == CASE d = 0 -> "0" [] d = 1 -> "1" [] d = 2 -> "2" [] d = 3 -> "3"
              [] d = 4 -> "4" [] d = 5 -> "5" [] d = 6 -> "6" [] d = 7 -> "7"
              [] d = 8 -> "8" [] d = 9 -> "9"

\* str(n) of a non-negative integer
RECURSIVE IntStr(_)
IntStr(n) == IF n < 10 THEN <<Digit(n)>> ELSE IntStr(n \div 10) \o <<Digit(n % 10)>>

-----------------------------------------------------------------------------
(* Cells.                                                                  *)

NaN == [t |-> "nan", v |-> <<>>]
IntCell(n) == [t |-> "int", v |-> n]
StrCell(s) == [t |-> "str", v |-> s]

\* pandas isna, as dropna applies it to a cell
isna(c) == c.t = "nan"

\* str(value), as astype(str) applies it to each value of a column
\* variant: the value re-read as a rate (a '%' taken off, a missing value blank)
astype_str_reparsed(c) ==
    CASE c.t = "nan" -> <<>>
      [] c.t = "int" -> IntStr(c.v)
      [] c.t = "str" -> SelectSeq(c.v, LAMBDA ch : ch # "%")
astype_str(c) ==
    CASE c.t = "nan" -> <<"n", "a", "n">>
      [] c.t = "int" -> IntStr(c.v)
      [] c.t = "str" -> c.v

-----------------------------------------------------------------------------
(* col_map: the logical fields, in the dict's order, each with its aliases *)
(* in declared order.                                                      *)

Date == <<"Date">>
InvoiceNo == <<"Invoice", " ", "No">>
PartyName == <<"Party", " ", "Name">>
TaxableAmount == <<"Taxable", " ", "Amount">>
GSTRate == <<"GST", " ", "Rate">>
SN == <<"S/N">>

col_map == <<
    [standard_name |-> Date,
     possible_names |-> << <<"Invoice", " ", "Date">>, <<"Invoice", " ", "date">> >>],
    [standard_name |-> InvoiceNo,
     possible_names |-> << <<"Invoice", " ", "No.">>, <<"Invoice", " ", "Number">>,
                           <<"Voucher", " ", "No.">> >>],
    [standard_name |-> PartyName,
     possible_names |-> << <<"Party", " ", "Name">>, <<"Receiver", " ", "Name">> >>],
    [standard_name |-> TaxableAmount,
     possible_names |-> << <<"Taxable", " ", "value">>, <<"Taxable", " ", "Value">> >>],
    [standard_name |-> GSTRate,
     possible_names |-> << <<"Rate">> >>] >>

Range(s) == {s[i] : i \in DOMAIN s}

-----------------------------------------------------------------------------
(* Messages put on the page.                                               *)

\* st.error of load_data: names the file and the exception
LoadErrorMsg(name, e) == [level |-> "error", kind |-> "load", who |-> name, what |-> e]
\* st.error of process_file: names the file type and the logical field
MissingColumnMsg(ft, standard_name) ==
    [level |-> "error", kind |-> "missing", who |-> ft, what |-> standard_name]
ProcessingFailedMsg ==
    [level |-> "error", kind |-> "failed", who |-> <<>>, what |-> <<>>]
UploadBothMsg ==
    [level |-> "warning", kind |-> "upload_both", who |-> <<>>, what |-> <<>>]
SuccessMsg ==
    [level |-> "success", kind |-> "processed", who |-> <<>>, what |-> <<>>]

-----------------------------------------------------------------------------
(* process_file.                                                           *)

\* df.columns.str.strip()
StripColumns(columns) == [j \in DOMAIN columns |-> strip(columns[j])]

\* the default of next(..., None); `not found_name` holds of it as of ''
NoName == <<>>

\* next((col for col in possible_names if col in df.columns), None)
\* variant: the last alias present, not the first
RECURSIVE found_name_last(_, _)
found_name_last(possible_names, columns) ==
    IF possible_names = <<>> THEN NoName
    ELSE IF possible_names[Len(possible_names)] \in Range(columns)
         THEN possible_names[Len(possible_names)]
         ELSE found_name_last(SubSeq(possible_names, 1, Len(possible_names) - 1), columns)
RECURSIVE found_name(_, _)
found_name(possible_names, columns) ==
    IF possible_names = <<>> THEN NoName
    ELSE IF Head(possible_names) \in Range(columns) THEN Head(possible_names)
         ELSE found_name(Tail(possible_names), columns)

\* The loop over col_map.items(), from entry i on: the first field without a
\* column ends it with the error; otherwise found_cols is filled.
\* variant: the loop goes on after a missing column and reports each one
RECURSIVE ResolveFrom_report_all(_, _, _, _)
ResolveFrom_report_all(i, columns, ft, found_cols) ==
    IF i > Len(col_map) THEN [ok |-> TRUE, found_cols |-> found_cols, errors |-> <<>>]
    ELSE LET name == found_name(col_map[i].possible_names, columns)
         IN  IF name = NoName
             THEN LET rest == ResolveFrom_report_all(i + 1, columns, ft, found_cols)
                  IN  [ok |-> FALSE, found_cols |-> rest.found_cols,
                       errors |-> <<MissingColumnMsg(ft, col_map[i].standard_name)>>
                                  \o rest.errors]
             ELSE ResolveFrom_report_all(i + 1, columns, ft,
                                         (col_map[i].standard_name :> name) @@ found_cols)
RECURSIVE ResolveFrom(_, _, _, _)
ResolveFrom(i, columns, ft, found_cols) ==
    IF i > Len(col_map) THEN [ok |-> TRUE, found_cols |-> found_cols, errors |-> <<>>]
    ELSE LET name == found_name(col_map[i].possible_names, columns)
         IN  IF name = NoName
             THEN [ok |-> FALSE, found_cols |-> found_cols,
                   errors |-> <<MissingColumnMsg(ft, col_map[i].standard_name)>>]
             ELSE ResolveFrom(i + 1, columns, ft,
                              (col_map[i].standard_name :> name) @@ found_cols)

\* position of the column labelled name
ColumnOf(columns, name) == CHOOSE j \in DOMAIN columns : columns[j] = name

\* frame[[labels]].copy(): the labelled columns, in the order of labels
SelectColumns(frame, labels) ==
    [columns |-> labels,
     rows |-> [r \in DOMAIN frame.rows |->
                  [k \in DOMAIN labels |->
                      frame.rows[r][ColumnOf(frame.columns, labels[k])]]]]

\* extracted_df.dropna(subset=[...], inplace=True): the rows with a value in
\* every column of subset stay, in order
\* variant: dropna() without subset
dropna_all_columns(frame, subset) ==
    [frame EXCEPT !.rows =
        SelectSeq(frame.rows,
                  LAMBDA row : \A j \in DOMAIN frame.columns : ~isna(row[j]))]
dropna(frame, subset) ==
    [frame EXCEPT !.rows =
        SelectSeq(frame.rows,
                  LAMBDA row : \A c \in subset : ~isna(row[ColumnOf(frame.columns, c)]))]

\* extracted_df.rename(columns=mapping): a label that is a key of mapping is
\* replaced by its value
rename(frame, mapping) ==
    [frame EXCEPT !.columns =
        [j \in DOMAIN frame.columns |->
            IF frame.columns[j] \in DOMAIN mapping
            THEN mapping[frame.columns[j]]
            ELSE frame.columns[j]]]

\* final_df['GST Rate'] = final_df['GST Rate'].astype(str) + '%'
FormatRate(frame) ==
    LET g == ColumnOf(frame.columns, GSTRate)
    IN  [frame EXCEPT !.rows =
            [r \in DOMAIN frame.rows |->
                [frame.rows[r] EXCEPT ![g] = StrCell(astype_str(@) \o <<"%">>)]]]

\* final_df.insert(0, 'S/N', range(1, len(final_df) + 1))
\* variant: range(len(final_df))
InsertSN_zero_based(frame) ==
    [columns |-> <<SN>> \o frame.columns,
     rows |-> [r \in DOMAIN frame.rows |-> <<IntCell(r - 1)>> \o frame.rows[r]]]
InsertSN(frame) ==
    [columns |-> <<SN>> \o frame.columns,
     rows |-> [r \in DOMAIN frame.rows |-> <<IntCell(r)>> \o frame.rows[r]]]

\* process_file(df, file_type): what it returns (ret), the table object as the
\* call leaves it (df: its columns are reassigned in place), what it puts on
\* the page (errors), and its local found_cols when it returns.
process_file(frame, ft) ==
    IF frame = None
    THEN [ret |-> None, df |-> None, errors |-> <<>>, found_cols |-> <<>>]
    ELSE
        LET stripped == [frame EXCEPT !.columns = StripColumns(frame.columns)]
            res == ResolveFrom(1, stripped.columns, ft, <<>>)
            found_cols == res.found_cols
        IN  IF ~res.ok
            THEN [ret |-> None, df |-> stripped, errors |-> res.errors,
                  found_cols |-> found_cols]
            ELSE
                LET extracted_df ==
                        dropna(SelectColumns(stripped,
                                   <<found_cols[Date], found_cols[InvoiceNo],
                                     found_cols[PartyName], found_cols[TaxableAmount],
                                     found_cols[GSTRate]>>),
                               {found_cols[PartyName], found_cols[TaxableAmount]})
                    final_df ==
                        rename(extracted_df,
                               (found_cols[Date] :> Date)
                               @@ (found_cols[InvoiceNo] :> InvoiceNo)
                               @@ (found_cols[PartyName] :> PartyName)
                               @@ (found_cols[TaxableAmount] :> TaxableAmount)
                               @@ (found_cols[GSTRate] :> GSTRate))
                IN  [ret |-> InsertSN(FormatRate(final_df)), df |-> stripped,
                     errors |-> <<>>, found_cols |-> found_cols]

-----------------------------------------------------------------------------
(* load_data.                                                              *)

\* skiprows=8
SkipRows == 8

Purchase == <<"Purchase">>
Sales == <<"Sales">>

EmptyFrame == [columns |-> <<>>, rows |-> <<>>]

\* pd.read_csv(uploaded_file, skiprows=8): raises on bytes that are no
\* delimited text and on a file with no line left after the skipped ones
read_csv(f) ==
    IF f.fmt # "csv" THEN [raised |-> TRUE, e |-> <<"ParserError">>, value |-> None]
    ELSE IF f.nrows <= SkipRows
    THEN [raised |-> TRUE, e |-> <<"EmptyDataError">>, value |-> None]
    ELSE [raised |-> FALSE, e |-> <<>>, value |-> f.table]

\* pd.read_excel(uploaded_file, skiprows=8, engine='openpyxl'): raises on
\* bytes that are no workbook; a sheet with no row left after the skipped
\* ones gives an empty DataFrame
read_excel(f) ==
    IF f.fmt # "xlsx" THEN [raised |-> TRUE, e |-> <<"BadZipFile">>, value |-> None]
    ELSE IF f.nrows <= SkipRows
    THEN [raised |-> FALSE, e |-> <<>>, value |-> EmptyFrame]
    ELSE [raised |-> FALSE, e |-> <<>>, value |-> f.table]

DotCsv == <<".", "c", "s", "v">>
DotXls == <<".", "x", "l", "s">>
DotXlsx == <<".", "x", "l", "s", "x">>

\* load_data(uploaded_file): what it returns (ret) and what it puts on the
\* page (errors)
load_data(uploaded_file) ==
    IF uploaded_file = None THEN [ret |-> None, errors |-> <<>>]
    ELSE IF endswith(uploaded_file.name, DotCsv)
    THEN LET r == read_csv(uploaded_file)
         IN  IF r.raised
             THEN [ret |-> None, errors |-> <<LoadErrorMsg(uploaded_file.name, r.e)>>]
             ELSE [ret |-> r.value, errors |-> <<>>]
    ELSE IF endswith(uploaded_file.name, DotXls) \/ endswith(uploaded_file.name, DotXlsx)
    THEN LET r == read_excel(uploaded_file)
         IN  IF r.raised
             THEN [ret |-> None, errors |-> <<LoadErrorMsg(uploaded_file.name, r.e)>>]
             ELSE [ret |-> r.value, errors |-> <<>>]
    ELSE [ret |-> None, errors |-> <<>>]

-----------------------------------------------------------------------------
(* The button handler.                                                     *)

\* the workbook written by the ExcelWriter block and offered by the
\* download button
Workbook(purchase_result_df, sales_result_df) ==
    [file_name |-> "Processed_Data.xlsx",
     sheets |-> << [sheet_name |-> "Purchase Data", data |-> purchase_result_df],
                   [sheet_name |-> "Sales Data", data |-> sales_result_df] >>]

\* the hand-off test before the workbook is written
\* variant: "or" in place of "and"
BothSucceeded_either(purchase_result_df, sales_result_df) ==
    purchase_result_df # None \/ sales_result_df # None
BothSucceeded(purchase_result_df, sales_result_df) ==
    purchase_result_df # None /\ sales_result_df # None

\* the body of "if st.button(...)": the page and the download it leaves
ProcessFiles(pf, sf) ==
    IF pf # None /\ sf # None
    THEN LET df_purchase == load_data(pf)
             df_sales == load_data(sf)
             purchase_result == process_file(df_purchase.ret, Purchase)
             sales_result == process_file(df_sales.ret, Sales)
             reported == df_purchase.errors \o df_sales.errors
                         \o purchase_result.errors \o sales_result.errors
         IN  IF BothSucceeded(purchase_result.ret, sales_result.ret)
             THEN [page |-> reported \o <<SuccessMsg>>,
                   download |-> Workbook(purchase_result.ret, sales_result.ret)]
             ELSE [page |-> reported \o <<ProcessingFailedMsg>>, download |-> None]
    ELSE [page |-> <<UploadBothMsg>>, download |-> None]

-----------------------------------------------------------------------------
(* The inputs drawn: headers, rows, tables, uploaded files.                *)

\* what a header can hold for each logical field: one alias, an alias padded
\* with whitespace, a near miss that is no alias, two aliases in either order
DateColumns == { << <<" ", "Invoice", " ", "Date", "\t">> >>,
                 << <<"Invoice", " ", "date">>, <<"Invoice", " ", "Date">> >> }
InvoiceNoColumns == { << <<"Invoice", " ", " ", "No.">> >>,
                      << <<"Voucher", " ", "No.">>, <<"Invoice", " ", "Number", " ">> >> }
PartyNameColumns == { << <<"Receiver", " ", "Name">> >>,
                      << <<"Party", " ", "Name", " ", " ">> >> }
TaxableAmountColumns == { << <<"Taxable", " ", "Value">>, <<"Taxable", " ", "value">> >>,
                          << <<"\t", "Taxable", " ", "Value">> >> }
RateColumns == { << <<"rate">> >>, << <<" ", "Rate">> >> }

Remarks == <<"Remarks">>

Reverse(s) == [j \in DOMAIN s |-> s[Len(s) + 1 - j]]

\* the headers handed to process_file on its own
Headers ==
    LET forward == { <<Remarks>> \o d \o n \o p \o t \o r :
                        d \in DateColumns, n \in InvoiceNoColumns,
                        p \in PartyNameColumns, t \in TaxableAmountColumns,
                        r \in RateColumns }
    IN  forward \cup { Reverse(h) : h \in forward }

\* the headers of the tables inside uploaded files
FileHeaders ==
    { <<Remarks>> \o d \o << <<"Voucher", " ", "No.">>, <<"Receiver", " ", "Name">>,
                             <<"Taxable", " ", "value">> >> \o r :
          d \in { <<>>, << <<"Invoice", " ", "Date", " ">> >> },
          r \in { << <<"rate">> >>, << <<"Rate">> >> } }

\* a kind of row: the columns (by stripped name) whose cell is missing, and
\* the cell of the Rate column
RowKinds == {
    [na |-> {}, rate |-> IntCell(18)],
    [na |-> {}, rate |-> StrCell(<<"1", "8">>)],
    [na |-> {<<"Party", " ", "Name">>, <<"Receiver", " ", "Name">>}, rate |-> IntCell(5)],
    [na |-> {<<"Taxable", " ", "value">>}, rate |-> StrCell(<<"1", "2", "%">>)],
    [na |-> {<<"Invoice", " ", "Date">>, <<"Invoice", " ", "date">>,
             <<"Voucher", " ", "No.">>, <<"Taxable", " ", "Value">>, <<"Rate">>},
     rate |-> NaN] }

FileRowKinds == {
    [na |-> {}, rate |-> IntCell(18)],
    [na |-> {<<"Receiver", " ", "Name">>}, rate |-> StrCell(<<"1", "8">>)] }

\* the row at position i of a table with the given header: every cell that is
\* not missing and not a rate is a text naming the row and the column
RowOf(header, i, kind) ==
    [j \in DOMAIN header |->
        IF rstrip(lstrip(header[j])) \in kind.na THEN NaN
        ELSE IF rstrip(lstrip(header[j])) = <<"Rate">> THEN kind.rate
        ELSE StrCell(<<"r", Digit(i), "c", Digit(j)>>)]

SeqsUpTo(S, n) == UNION { [1..k -> S] : k \in 0..n }

TableOf(header, kinds) ==
    [columns |-> header,
     rows |-> [i \in DOMAIN kinds |-> RowOf(header, i, kinds[i])]]

Tables == { TableOf(h, ks) : h \in Headers, ks \in SeqsUpTo(RowKinds, MaxRows) }

FileTables == { TableOf(h, ks) : h \in FileHeaders, ks \in SeqsUpTo(FileRowKinds, MaxFileRows) }

FileNames == { <<"a", ".", "c", "s", "v">>,
               <<"a", ".", "x", "l", "s", "x">>,
               <<"a", ".", "C", "S", "V">> }

\* an upload: its name, the format of its bytes, the number of rows in it,
\* and the table its rows after the banner spell
UploadedFiles ==
    { [name |-> n, fmt |-> f, nrows |-> SkipRows + 1 + Len(t.rows), table |-> t] :
          n \in FileNames, f \in {"csv", "xlsx"}, t \in FileTables }
    \cup
    { [name |-> n, fmt |-> f, nrows |-> SkipRows, table |-> EmptyFrame] :
          n \in FileNames, f \in {"csv", "xlsx"} }

-----------------------------------------------------------------------------
(* The app: two uploaders and the button.                                  *)

Init ==
    /\ purchase_file = None
    /\ sales_file = None
    /\ page = <<>>
    /\ download = None
    /\ raw = None
    /\ df = None
    /\ file_type = Purchase
    /\ runs = <<>>

\* a file is put into the "purchase" uploader; the script reruns with the
\* button not pressed
UploadPurchase ==
    /\ purchase_file = None
    /\ purchase_file' \in UploadedFiles
    /\ page' = <<>>
    /\ download' = None
    /\ UNCHANGED <<sales_file, raw, df, file_type, runs>>

UploadSales ==
    /\ sales_file = None
    /\ sales_file' \in UploadedFiles
    /\ page' = <<>>
    /\ download' = None
    /\ UNCHANGED <<purchase_file, raw, df, file_type, runs>>

\* the file is taken out of the uploader again
RemovePurchase ==
    /\ purchase_file # None
    /\ purchase_file' = None
    /\ page' = <<>>
    /\ download' = None
    /\ UNCHANGED <<sales_file, raw, df, file_type, runs>>

RemoveSales ==
    /\ sales_file # None
    /\ sales_file' = None
    /\ page' = <<>>
    /\ download' = None
    /\ UNCHANGED <<purchase_file, raw, df, file_type, runs>>

\* the button is pressed: the script reruns and the handler runs to its end
PressButton ==
    /\ page' = ProcessFiles(purchase_file, sales_file).page
    /\ download' = ProcessFiles(purchase_file, sales_file).download
    /\ UNCHANGED <<purchase_file, sales_file, raw, df, file_type, runs>>

Next ==
    \/ UploadPurchase
    \/ UploadSales
    \/ RemovePurchase
    \/ RemoveSales
    \/ PressButton

Spec == Init /\ [][Next]_vars

-----------------------------------------------------------------------------
(* process_file on its own: a loaded table is handed to process_file, and  *)
(* the same table object is handed to it again.                            *)

InitTable ==
    /\ purchase_file = None
    /\ sales_file = None
    /\ page = <<>>
    /\ download = None
    /\ raw \in Tables
    /\ df = raw
    /\ file_type \in {Purchase, Sales}
    /\ runs = <<>>

CallProcessFile ==
    /\ Len(runs) < MaxRuns
    /\ LET out == process_file(df, file_type)
       IN  /\ df' = out.df
           /\ runs' = Append(runs, [ret |-> out.ret, errors |-> out.errors,
                                    found_cols |-> out.found_cols])
    /\ UNCHANGED <<purchase_file, sales_file, page, download, raw, file_type>>

NextTable == CallProcessFile

SpecTable == InitTable /\ [][NextTable]_vars

-----------------------------------------------------------------------------
(* Vocabulary of the properties, stated on the inputs and not through the  *)
(* resolver.                                                               *)

Fields == DOMAIN col_map

Aliases(k) == Range(col_map[k].possible_names)

\* the header with each name stripped of leading and trailing whitespace
Trimmed(columns) == [j \in DOMAIN columns |-> rstrip(lstrip(columns[j]))]

HasAlias(columns, k) == \E j \in DOMAIN columns : Trimmed(columns)[j] \in Aliases(k)

MissingFields(columns) == {k \in Fields : ~HasAlias(columns, k)}

\* a is the first alias of field k, in declared order, that the trimmed header holds
IsFirstAlias(columns, k, a) ==
    \E n \in DOMAIN col_map[k].possible_names :
        /\ col_map[k].possible_names[n] = a
        /\ a \in Range(Trimmed(columns))
        /\ \A m \in 1..(n - 1) :
               col_map[k].possible_names[m] \notin Range(Trimmed(columns))

\* the position, in the header, of the column field k resolves to
SourceColumn(columns, k) ==
    CHOOSE j \in DOMAIN columns : IsFirstAlias(columns, k, Trimmed(columns)[j])

FieldDate == 1
FieldInvoiceNo == 2
FieldPartyName == 3
FieldTaxableAmount == 4
FieldGSTRate == 5

\* the button has been pressed with both files in place
Pressed == page # <<>> /\ purchase_file # None /\ sales_file # None

\* the table the loader hands on for an upload, or None
Loaded(f) == load_data(f).ret

\* the messages on the page that are errors
ErrorsOnPage == SelectSeq(page, LAMBDA m : m.level = "error")
WarningsOnPage == SelectSeq(page, LAMBDA m : m.level = "warning")

\* the MissingColumn errors on the page that name file type ft
MissingErrors(ft) ==
    SelectSeq(page, LAMBDA m : m.level = "error" /\ m.kind = "missing" /\ m.who = ft)

\* the load errors on the page that name the file called name
LoadErrors(name) ==
    SelectSeq(page, LAMBDA m : m.level = "error" /\ m.kind = "load" /\ m.who = name)

\* the pipeline of one file succeeds end to end: the file loads and its
\* trimmed header holds an alias of every logical field
PipelineSucceeds(f) ==
    /\ f # None
    /\ Loaded(f) # None
    /\ MissingFields(Loaded(f).columns) = {}

\* the file fails with MissingColumn: it loads, and a field has no alias
FailsMissingColumn(f) ==
    /\ f # None
    /\ Loaded(f) # None
    /\ MissingFields(Loaded(f).columns) # {}

-----------------------------------------------------------------------------
(* C1: the download of Processed_Data.xlsx is on the page only if both     *)
(* files were uploaded and the Purchase and the Sales pipeline both        *)
(* succeeded end to end; it then holds both sheets, never one.             *)
C1_ArtifactOnlyIfBothSucceed ==
    download # None =>
        /\ PipelineSucceeds(purchase_file)
        /\ PipelineSucceeds(sales_file)
        /\ Len(download.sheets) = 2
        /\ \A n \in 1..2 : download.sheets[n].data # None

\* the button was pressed with one pipeline failing and the other succeeding
C1_Witness ==
    /\ Pressed
    /\ ~PipelineSucceeds(purchase_file)
    /\ PipelineSucceeds(sales_file)
    /\ download = None

(* C2, as stated: Purchase fails with MissingColumn and Sales succeeds:    *)
(* no artifact, exactly one error on the page (naming Purchase and the     *)
(* missing field), and no warning.                                         *)
C2_ExactlyOneError ==
    (Pressed /\ FailsMissingColumn(purchase_file) /\ PipelineSucceeds(sales_file)) =>
        /\ download = None
        /\ Len(ErrorsOnPage) = 1
        /\ ErrorsOnPage[1].kind = "missing"
        /\ ErrorsOnPage[1].who = Purchase
        /\ WarningsOnPage = <<>>

(* C2, amended: in that case there is no artifact, no warning, and the     *)
(* errors on the page are exactly two: first the one naming Purchase and   *)
(* a field that is missing, then the general "Processing failed" error;    *)
(* no error names Sales.                                                   *)
C2_OneFileErrorThenSummary ==
    (Pressed /\ FailsMissingColumn(purchase_file) /\ PipelineSucceeds(sales_file)) =>
        /\ download = None
        /\ WarningsOnPage = <<>>
        /\ Len(ErrorsOnPage) = 2
        /\ ErrorsOnPage[1].kind = "missing"
        /\ ErrorsOnPage[1].who = Purchase
        /\ \E k \in MissingFields(Loaded(purchase_file).columns) :
               ErrorsOnPage[1].what = col_map[k].standard_name
        /\ ErrorsOnPage[2] = ProcessingFailedMsg
        /\ MissingErrors(Sales) = <<>>

C2_Witness ==
    /\ Pressed
    /\ FailsMissingColumn(purchase_file)
    /\ PipelineSucceeds(sales_file)
    /\ Len(page) = 2

(* C3: a loaded table whose trimmed header lacks an alias of some logical  *)
(* field gives no CleanTable (so no artifact) and exactly one              *)
(* MissingColumn error, which names the file type and a field that has no  *)
(* alias in the header; this holds of each of the two files whatever the   *)
(* other does, and a sibling that resolves gets no MissingColumn error.    *)
C3_MissingColumnReported ==
    Pressed =>
        \A side \in { <<purchase_file, Purchase>>, <<sales_file, Sales>> } :
            /\ FailsMissingColumn(side[1]) =>
                   /\ download = None
                   /\ Len(MissingErrors(side[2])) = 1
                   /\ \E k \in MissingFields(Loaded(side[1]).columns) :
                          MissingErrors(side[2])[1].what = col_map[k].standard_name
            /\ ~FailsMissingColumn(side[1]) => MissingErrors(side[2]) = <<>>

\* Purchase lacks a column, behind whitespace-padded names that do resolve,
\* and Sales, processed after it, lacks one too
C3_Witness ==
    /\ Pressed
    /\ FailsMissingColumn(purchase_file)
    /\ FailsMissingColumn(sales_file)
    /\ \E j \in DOMAIN Loaded(purchase_file).columns :
           Loaded(purchase_file).columns[j] # Trimmed(Loaded(purchase_file).columns)[j]
    /\ MissingErrors(Purchase) # <<>>
    /\ MissingErrors(Sales) # <<>>

-----------------------------------------------------------------------------
(* process_file on its own: vocabulary.                                    *)

\* process_file has been called on the loaded table
Called == Len(runs) >= 1

\* the outcome of the first call
First == runs[1]

\* the rows of the loaded table in which Party Name and Taxable Amount, in
\* the columns these fields resolve to, both hold a value; in source order
KeptSourceRows ==
    SelectSeq([i \in DOMAIN raw.rows |-> i],
              LAMBDA i :
                  /\ raw.rows[i][SourceColumn(raw.columns, FieldPartyName)] # NaN
                  /\ raw.rows[i][SourceColumn(raw.columns, FieldTaxableAmount)] # NaN)

DroppedSourceRows ==
    {i \in DOMAIN raw.rows :
        \/ raw.rows[i][SourceColumn(raw.columns, FieldPartyName)] = NaN
        \/ raw.rows[i][SourceColumn(raw.columns, FieldTaxableAmount)] = NaN}

\* the value of a text of decimal digits
RECURSIVE DecimalValue(_)
DecimalValue(s) ==
    IF s = <<>> THEN 0
    ELSE 10 * DecimalValue(SubSeq(s, 1, Len(s) - 1))
         + (CHOOSE d \in 0..9 : Digit(d) = s[Len(s)])

DigitChars == {Digit(d) : d \in 0..9}

\* text is the string form of the cell c
IsStringFormOf(text, c) ==
    CASE c.t = "str" -> text = c.v
      [] c.t = "nan" -> text = <<"n", "a", "n">>
      [] c.t = "int" -> /\ text # <<>>
                        /\ \A n \in DOMAIN text : text[n] \in DigitChars
                        /\ (Len(text) > 1 => text[1] # "0")
                        /\ DecimalValue(text) = c.v

C5_RowsKeptInOrder ==
    (Called /\ MissingFields(raw.columns) = {}) =>
        /\ First.ret # None
        /\ First.ret.columns = <<SN, Date, InvoiceNo, PartyName, TaxableAmount, GSTRate>>
        /\ Len(First.ret.rows) = Len(KeptSourceRows)
        /\ Len(First.ret.rows) = Len(raw.rows) - Cardinality(DroppedSourceRows)
        /\ \A n \in DOMAIN First.ret.rows :
               \A k \in {FieldDate, FieldInvoiceNo, FieldPartyName, FieldTaxableAmount} :
                   First.ret.rows[n][k + 1]
                       = raw.rows[KeptSourceRows[n]][SourceColumn(raw.columns, k)]

\* a row missing Party Name or Taxable Amount was dropped, a row missing
\* Date was kept after it
C5_Witness ==
    /\ Called
    /\ MissingFields(raw.columns) = {}
    /\ First.ret # None
    /\ Len(raw.rows) = 2
    /\ DroppedSourceRows = {1}
    /\ raw.rows[2][SourceColumn(raw.columns, FieldDate)] = NaN
    /\ Len(First.ret.rows) = 1

(* C6: in a returned table the S/N column comes first and the row at       *)
(* position n (from 1) holds S/N n, whichever source rows were dropped.    *)
C6_SerialsContiguous ==
    (Called /\ First.ret # None) =>
        /\ First.ret.columns[1] = SN
        /\ \A n \in DOMAIN First.ret.rows : First.ret.rows[n][1] = IntCell(n)

\* the first source row was dropped and the second kept: it holds S/N 1
C6_Witness ==
    /\ Called
    /\ First.ret # None
    /\ 1 \in DroppedSourceRows
    /\ Len(First.ret.rows) >= 1
    /\ First.ret.rows[1][1] = IntCell(1)

(* C7: in every row of a returned table GST Rate is a text that ends with  *)
(* '%', and what precedes that '%' is the string form of the value the     *)
(* same source row holds in the resolved Rate column, be it a number, a    *)
(* text or missing.                                                        *)
C7_RateIsTextPlusPercent ==
    (Called /\ First.ret # None) =>
        \A n \in DOMAIN First.ret.rows :
            LET out == First.ret.rows[n][6]
                src == raw.rows[KeptSourceRows[n]][SourceColumn(raw.columns, FieldGSTRate)]
            IN  /\ out.t = "str"
                /\ out.v # <<>>
                /\ out.v[Len(out.v)] = "%"
                /\ IsStringFormOf(SubSeq(out.v, 1, Len(out.v) - 1), src)

\* a textual rate that already ends with '%' and a numeric rate of two
\* digits both went through
C7_Witness ==
    /\ Called
    /\ First.ret # None
    /\ Len(First.ret.rows) = 2
    /\ First.ret.rows[1][6] = StrCell(<<"1", "2", "%", "%">>)
    /\ First.ret.rows[2][6] = StrCell(<<"1", "8", "%">>)
    /\ raw.rows[2][SourceColumn(raw.columns, FieldGSTRate)] = IntCell(18)

(* C9: a second call of process_file on the same table object, whose       *)
(* column names the first call has stripped in place, gives what the       *)
(* first gave: the same outcome, the same errors, the same table.          *)
C9_SecondRunSame ==
    Len(runs) >= 2 =>
        /\ runs[2].ret = runs[1].ret
        /\ runs[2].errors = runs[1].errors
        /\ runs[2].found_cols = runs[1].found_cols

\* two calls were made on a table whose names the first call changed
C9_Witness ==
    /\ Len(runs) >= 2
    /\ df # raw
    /\ runs[1].ret # None
    /\ Len(runs[1].ret.rows) >= 1

-----------------------------------------------------------------------------
(* The loader's failures on the page.                                      *)

\* the name is of neither format load_data reads
UnrecognizedName(f) ==
    /\ ~endswith(f.name, DotCsv)
    /\ ~endswith(f.name, DotXls)
    /\ ~endswith(f.name, DotXlsx)

\* the bytes are not of the format the name announces
Corrupt(f) ==
    \/ endswith(f.name, DotCsv) /\ f.fmt # "csv"
    \/ endswith(f.name, DotXlsx) /\ f.fmt # "xlsx"

\* fewer than 9 rows: nothing follows the 8 banner rows
TooShort(f) == f.nrows < SkipRows + 1

(* C8: an uploaded file whose format is unrecognized or corrupt, or that   *)
(* has fewer than 9 rows, gets a load error on the page that carries the   *)
(* file's name, and no table of it reaches the workbook.                   *)
C8_LoadErrorReported ==
    Pressed =>
        \A f \in {purchase_file, sales_file} :
            (UnrecognizedName(f) \/ Corrupt(f) \/ TooShort(f)) =>
                /\ LoadErrors(f.name) # <<>>
                /\ download = None

(* C10: with both files uploaded, when each of the two fails (it does not  *)
(* load, or it lacks a column), an error for the Purchase file and an      *)
(* error for the Sales file are both on the page.                          *)
C10_BothFailuresReported ==
    (Pressed /\ ~PipelineSucceeds(purchase_file) /\ ~PipelineSucceeds(sales_file)) =>
        /\ Len(LoadErrors(purchase_file.name)) + Len(MissingErrors(Purchase)) >= 1
        /\ Len(LoadErrors(sales_file.name)) + Len(MissingErrors(Sales)) >= 1
        /\ Len(SelectSeq(page, LAMBDA m : m.level = "error"
                                          /\ m.kind \in {"load", "missing"})) >= 2

====
